---- MODULE Spec2Model ----
(***************************************************************************)
(* ImplicitSessionService (fraud-agent/implicit_session_service.py): a     *)
(* proxy over a BaseSessionService whose get_session lists the sessions of *)
(* (app_name, user_id), fetches the first one in full, or creates one.     *)
(* Callers are coroutines on one event loop: each awaited store call is a  *)
(* suspension point, and a store call takes effect atomically.             *)
(***************************************************************************)
EXTENDS Integers, Sequences, FiniteSets, TLC

\* ------------------------------------------------------------------ bounds
\* Number of session identifiers the store may generate in one behaviour.
MaxSessions == 2
\* Number of Event objects the callers may create in one behaviour.
MaxEvents == 2
\* Number of Event objects created in one behaviour of a specification with
\* concurrent callers or with every argument of the proxied operations.
SoloEvents == 1

\* ------------------------------------------------------------- input sets
Callers == {"c1", "c2"}
Apps == {"fraud"}
Users == {"alice", "bob"}
\* Python's None, as the state or config argument.
None == "None"
\* Python's None, as the session_id argument of create_session.
NoId == -1
\* Initial states a caller may hand to create_session.
StateArgs == {None, "st"}
\* The opaque config a caller may hand to get_session.
ConfigArgs == {None, "cfg"}
\* A session_id that names no session of the store ("ignored").
NowhereId == 0
\* A session_id a caller picks itself; the store generates 1, 2, ...
CustomId == 100
\* session_id values a caller may hand to get_session / delete_session.
SessionIdArgs == 0 .. MaxSessions
\* session_id values a caller may hand to create_session.
CreateIdArgs == {NoId, CustomId}

\* The state mapping of a session created with state=None.
EmptyState == "{}"

\* ----------------------------------------------------- the proxied store
\* A Session: identity, state mapping and ordered event history.
Session(id, app, user, state, events) ==
  [id |-> id, app_name |-> app, user_id |-> user, state |-> state,
   events |-> events]

\* The partial view list_sessions returns: identity only, no event history.
SessionSummary(s) == Session(s.id, s.app_name, s.user_id, EmptyState, <<>>)

\* The sessions of (app, user), in creation order.
SessionsOf(st, app, user) ==
  SelectSeq(st, LAMBDA s : s.app_name = app /\ s.user_id = user)

SummariesOf(st, app, user) ==
  [i \in 1 .. Len(SessionsOf(st, app, user)) |->
     SessionSummary(SessionsOf(st, app, user)[i])]

StoreIds(st) == {st[i].id : i \in 1 .. Len(st)}

\* Results of a store call.
SessionResult(s) == [kind |-> "session", session |-> s]
ListResult(ss) == [kind |-> "list", sessions |-> ss]
EventResult(e) == [kind |-> "event", event |-> e]
NoneResult == [kind |-> "none"]
NotFound == [kind |-> "notfound"]
StoreError(e) == [kind |-> "error", err |-> e]

\* Store calls, as the keyword arguments they are made with.
CreateCall(app, user, state, sid) ==
  [op |-> "create_session", app_name |-> app, user_id |-> user,
   state |-> state, session_id |-> sid]
ListCall(app, user) ==
  [op |-> "list_sessions", app_name |-> app, user_id |-> user]
GetCall(app, user, sid, config) ==
  [op |-> "get_session", app_name |-> app, user_id |-> user,
   session_id |-> sid, config |-> config]
DeleteCall(app, user, sid) ==
  [op |-> "delete_session", app_name |-> app, user_id |-> user,
   session_id |-> sid]
AppendCall(session, event) ==
  [op |-> "append_event", session |-> session, event |-> event]

Outcome(st, nid, res) == [store |-> st, nextId |-> nid, result |-> res]

StoreCreate(st, nid, c) ==
  LET id == IF c.session_id = NoId THEN nid ELSE c.session_id
      s == Session(id, c.app_name, c.user_id,
                   IF c.state = None THEN EmptyState ELSE c.state, <<>>)
  IN IF id \in StoreIds(st)
     THEN Outcome(st, nid, StoreError("AlreadyExists"))
     ELSE Outcome(Append(st, s), IF c.session_id = NoId THEN nid + 1 ELSE nid,
                  SessionResult(s))

StoreList(st, nid, c) ==
  Outcome(st, nid, ListResult(SummariesOf(st, c.app_name, c.user_id)))

StoreGet(st, nid, c) ==
  LET hit == SelectSeq(SessionsOf(st, c.app_name, c.user_id),
                       LAMBDA s : s.id = c.session_id)
  IN Outcome(st, nid, IF hit = <<>> THEN NotFound ELSE SessionResult(hit[1]))

StoreDelete(st, nid, c) ==
  Outcome(SelectSeq(st, LAMBDA s : ~(s.app_name = c.app_name
                                     /\ s.user_id = c.user_id
                                     /\ s.id = c.session_id)),
          nid, NoneResult)

\* The stored session a Session object denotes, by identity.
Denotes(s, x) ==
  s.id = x.id /\ s.app_name = x.app_name /\ s.user_id = x.user_id

StoreAppend(st, nid, c) ==
  IF \E i \in 1 .. Len(st) : Denotes(st[i], c.session)
  THEN Outcome([i \in 1 .. Len(st) |->
                  IF Denotes(st[i], c.session)
                  THEN [st[i] EXCEPT !.events = Append(@, c.event)]
                  ELSE st[i]],
               nid, EventResult(c.event))
  ELSE Outcome(st, nid, StoreError("NotFound"))

\* One call on the proxied service; fail: the call fails at the store level
\* (network/auth/quota) and changes nothing.
ProxiedCall(st, nid, c, fail) ==
  IF fail THEN Outcome(st, nid, StoreError("StoreUnavailable"))
  ELSE CASE c.op = "create_session" -> StoreCreate(st, nid, c)
         [] c.op = "list_sessions" -> StoreList(st, nid, c)
         [] c.op = "get_session" -> StoreGet(st, nid, c)
         [] c.op = "delete_session" -> StoreDelete(st, nid, c)
         [] c.op = "append_event" -> StoreAppend(st, nid, c)

\* ------------------------------------------------------------------ state
VARIABLES
  store,      \* the proxied service's sessions, in creation order
  nextId,     \* the next identifier the store generates
  nextEv,     \* the next Event object a caller creates
  pc,         \* per caller: "idle", or "await" inside get_session
  frame,      \* per caller: get_session's locals while it is suspended
  last,       \* the operation that completed last, and its outcome
  lastCaller, \* the caller whose store call took effect last
  appendLog,  \* the events appended since the last get_session of their pair
  deploy,     \* per process: the module globals of deploy.py
  agent,      \* the module globals of agent/agent.py and its last call
  deleter     \* the run of delete.py: its locals and its effects

vars == <<store, nextId, nextEv, pc, frame, last, lastCaller, appendLog,
          deploy, agent, deleter>>
\* The state outside the session service.
toolVars == <<deploy, agent, deleter>>
\* The state of the session service and its callers.
sessionVars ==
  <<store, nextId, nextEv, pc, frame, last, lastCaller, appendLog>>

\* The processes that import deploy.py.
DeployProcs == {"w1", "w2"}
\* An empty dict.
EmptyDict == [k \in {} |-> None]
\* _session_service = None.
NoService == [kind |-> "None"]
\* deploy.py's globals when the module is imported; built and clients count
\* the objects constructed, calls the calls of get_session_service.
DeployStart ==
  [CONFIG |-> EmptyDict, session_service |-> NoService, built |-> 0,
   clients |-> 0, calls |-> 0, returned |-> NoService]
\* agent.py's globals when the module is imported; attempts counts the calls
\* of publisher.publish, handed the messages it accepted, errors the
\* failures logged.
AgentStart ==
  [publishers |-> {}, calls |-> 0, attempts |-> 0, handed |-> <<>>,
   errors |-> 0, ret |-> "none", outcome |-> "none", topic |-> "none"]
\* delete.py before main runs.
DeleterStart ==
  [pc |-> "start", short_agent_id |-> <<>>, listed |-> <<>>, i |-> 0,
   target_agent |-> 0, deleted |-> {}, exit |-> "running",
   raised |-> "none"]

NoCall == [op |-> "none"]
NoPrev == [op |-> "none", delta |-> 0]
IdleFrame == [call |-> NoCall, calls |-> <<>>, pending |-> NoCall,
              prev |-> NoPrev]
NoLast == [caller |-> "none", op |-> "none", call |-> NoCall, calls |-> <<>>,
           result |-> NoneResult, delta |-> 0, clean |-> TRUE,
           prev |-> NoPrev]

Init ==
  /\ store = <<>>
  /\ nextId = 1
  /\ nextEv = 1
  /\ pc = [p \in Callers |-> "idle"]
  /\ frame = [p \in Callers |-> IdleFrame]
  /\ last = NoLast
  /\ lastCaller = "none"
  /\ appendLog = {}
  /\ deploy = [d \in DeployProcs |-> DeployStart]
  /\ agent = AgentStart
  /\ deleter = DeleterStart

\* The (app_name, user_id) a call is about.
KeyOf(c) ==
  IF c.op = "append_event" THEN <<c.session.app_name, c.session.user_id>>
  ELSE IF c.op = "none" THEN <<>>
  ELSE <<c.app_name, c.user_id>>

\* The operation p completed just before it starts one on (app, user) now:
\* remembered when it was on the same (app, user) and no other caller's
\* store call took effect since it started.
Chained(p, app, user) ==
  IF lastCaller = p /\ last.caller = p /\ last.clean
     /\ KeyOf(last.call) = <<app, user>>
  THEN [op |-> last.op, delta |-> last.delta] ELSE NoPrev

\* Operation op of caller p returns (or raises) with outcome o; delta is the
\* number of sessions the store gained.
Return(p, op, call, calls, o, clean, prev) ==
  /\ store' = o.store
  /\ nextId' = o.nextId
  /\ pc' = [pc EXCEPT ![p] = "idle"]
  /\ frame' = [frame EXCEPT ![p] = IdleFrame]
  /\ last' = [caller |-> p, op |-> op, call |-> call, calls |-> calls,
              result |-> o.result, delta |-> Len(o.store) - Len(store),
              clean |-> clean, prev |-> IF clean THEN prev ELSE NoPrev]
  /\ lastCaller' = p
  /\ UNCHANGED toolVars

\* ------------------------------------------------- ImplicitSessionService
\* get_session listing the sessions of one fixed user.
list_call_fixed_user(app, user, sid, config) == ListCall(app, "alice")

\* The call get_session makes first.
get_session_list_call(app, user, sid, config) == ListCall(app, user)

\* get_session fetching the session the caller named, not the first listed.
next_call_by_caller_id(app, user, sid, config, sessions_list) ==
  IF sessions_list.sessions # <<>>
  THEN GetCall(app, user, sid, config)
  ELSE CreateCall(app, user, None, NoId)

\* get_session creating a session whatever the listing holds.
next_call_always_creates(app, user, sid, config, sessions_list) ==
  CreateCall(app, user, None, NoId)

\* get_session creating the session under the caller's session_id.
next_call_creates_with_id(app, user, sid, config, sessions_list) ==
  IF sessions_list.sessions # <<>>
  THEN GetCall(app, user, sessions_list.sessions[1].id, config)
  ELSE CreateCall(app, user, None, sid)

\* get_session fetching the session listed last.
next_call_fetches_last(app, user, sid, config, sessions_list) ==
  IF sessions_list.sessions # <<>>
  THEN GetCall(app, user,
               sessions_list.sessions[Len(sessions_list.sessions)].id, config)
  ELSE CreateCall(app, user, None, NoId)

\* The call get_session makes after the listing came back.
get_session_next_call(app, user, sid, config, sessions_list) ==
  IF sessions_list.sessions # <<>>
  THEN GetCall(app, user, sessions_list.sessions[1].id, config)
  ELSE CreateCall(app, user, None, NoId)

\* get_session answering a failed listing as if it were empty: it goes on to
\* create a session.
get_session_list_recovers(p, app, user, sid, config, fail) ==
  LET call == GetCall(app, user, sid, config)
      c == get_session_list_call(app, user, sid, config)
      o == ProxiedCall(store, nextId, c, fail)
      listed == IF o.result.kind = "list" THEN o.result ELSE ListResult(<<>>)
  IN /\ pc[p] = "idle"
     /\ pc' = [pc EXCEPT ![p] = "await"]
     /\ frame' = [frame EXCEPT ![p] =
           [call |-> call, calls |-> <<c>>,
            pending |-> get_session_next_call(app, user, sid, config, listed),
            prev |-> Chained(p, app, user)]]
     /\ store' = o.store
     /\ nextId' = o.nextId
     /\ lastCaller' = p
     /\ UNCHANGED <<last, appendLog, nextEv>>
     /\ UNCHANGED toolVars

\* get_session up to its second await: list, then issue the fetch or create.
get_session_list(p, app, user, sid, config, fail) ==
  LET call == GetCall(app, user, sid, config)
      c == get_session_list_call(app, user, sid, config)
      o == ProxiedCall(store, nextId, c, fail)
  IN /\ pc[p] = "idle"
     /\ IF o.result.kind = "list"
        THEN /\ pc' = [pc EXCEPT ![p] = "await"]
             /\ frame' = [frame EXCEPT ![p] =
                   [call |-> call, calls |-> <<c>>,
                    pending |-> get_session_next_call(app, user, sid, config,
                                                      o.result),
                    prev |-> Chained(p, app, user)]]
             /\ store' = o.store
             /\ nextId' = o.nextId
             /\ lastCaller' = p
             /\ UNCHANGED <<last, appendLog>>
             /\ UNCHANGED toolVars
        ELSE /\ Return(p, "get_session", call, <<c>>, o, TRUE,
                       Chained(p, app, user))
             /\ appendLog' = {a \in appendLog : a.key # <<app, user>>}
     /\ UNCHANGED nextEv

\* get_session returning the listing's summary of the session it chose.
result_summary(o) ==
  IF o.result.kind = "session"
  THEN [o EXCEPT !.result = SessionResult(SessionSummary(o.result.session))]
  ELSE o

\* get_session dropping the session it obtained.
result_dropped(o) == [o EXCEPT !.result = NoneResult]

\* What get_session returns for the outcome of its second call.
get_session_result(o) == o

\* get_session from its second await: the fetch or create takes effect and
\* its result is returned.
get_session_return(p, fail) ==
  LET c == frame[p].pending
      o == get_session_result(ProxiedCall(store, nextId, c, fail))
  IN /\ pc[p] = "await"
     /\ c.op = "create_session" => nextId <= MaxSessions
     /\ Return(p, "get_session", frame[p].call, Append(frame[p].calls, c), o,
               lastCaller = p, frame[p].prev)
     /\ appendLog' = {a \in appendLog : a.key # KeyOf(frame[p].call)}
     /\ UNCHANGED nextEv

\* create_session forwarding no initial state.
create_call_drops_state(app, user, state, sid) ==
  CreateCall(app, user, None, sid)

\* The call create_session forwards.
create_session_call(app, user, state, sid) == CreateCall(app, user, state, sid)

create_session(p, app, user, state, sid, fail) ==
  LET call == CreateCall(app, user, state, sid)
      c == create_session_call(app, user, state, sid)
  IN /\ pc[p] = "idle"
     /\ nextId <= MaxSessions
     /\ Return(p, "create_session", call, <<c>>,
               ProxiedCall(store, nextId, c, fail), TRUE,
               Chained(p, app, user))
     /\ UNCHANGED <<nextEv, appendLog>>

\* The call list_sessions forwards.
list_sessions_call(app, user) == ListCall(app, user)

list_sessions(p, app, user, fail) ==
  LET call == ListCall(app, user)
      c == list_sessions_call(app, user)
  IN /\ pc[p] = "idle"
     /\ Return(p, "list_sessions", call, <<c>>,
               ProxiedCall(store, nextId, c, fail), TRUE,
               Chained(p, app, user))
     /\ UNCHANGED <<nextEv, appendLog>>

\* delete_session forwarding its identifiers in the wrong order.
delete_call_swapped(app, user, sid) == DeleteCall(user, app, sid)

\* delete_session forwarding the identifier of another session.
delete_call_wrong_id(app, user, sid) ==
  DeleteCall(app, user, IF sid = 1 THEN 2 ELSE 1)

\* The call delete_session forwards.
delete_session_call(app, user, sid) == DeleteCall(app, user, sid)

delete_session(p, app, user, sid, fail) ==
  LET call == DeleteCall(app, user, sid)
      c == delete_session_call(app, user, sid)
  IN /\ pc[p] = "idle"
     /\ Return(p, "delete_session", call, <<c>>,
               ProxiedCall(store, nextId, c, fail), TRUE,
               Chained(p, app, user))
     /\ UNCHANGED <<nextEv, appendLog>>

\* The Session objects a caller may hold: a stored session as it is, or the
\* object of a session that is gone.
SessionArgs ==
  {store[i] : i \in 1 .. Len(store)}
    \cup {Session(id, app, user, EmptyState, <<>>) :
            id \in ((1 .. (nextId - 1)) \cup {CustomId}) \ StoreIds(store),
            app \in Apps, user \in Users}

\* The caller p got this Session object from get_session: from the call it
\* made last, or before an append_event it made last on the same object.
FromGet(p, session) ==
  /\ last.caller = p
  /\ \/ /\ last.op = "get_session"
        /\ last.result.kind = "session"
        /\ last.result.session.id = session.id
     \/ /\ last.op = "append_event"
        /\ last.call.session.id = session.id
        /\ \E a \in appendLog : a.event = last.call.event /\ a.fromGet

\* The call append_event forwards.
append_event_call(session, event) == AppendCall(session, event)

\* append_event with a Session object the caller holds and a fresh Event.
append_event(p, session, fail) ==
  LET call == AppendCall(session, nextEv)
      c == append_event_call(session, nextEv)
      o == ProxiedCall(store, nextId, c, fail)
  IN /\ pc[p] = "idle"
     /\ nextEv <= MaxEvents
     /\ nextEv' = nextEv + 1
     /\ appendLog' =
          IF o.result.kind = "event"
          THEN appendLog \cup {[event |-> nextEv, id |-> session.id,
                                key |-> KeyOf(call),
                                fromGet |-> FromGet(p, session)]}
          ELSE appendLog
     /\ Return(p, "append_event", call, <<c>>, o, TRUE,
               Chained(p, session.app_name, session.user_id))

\* get_session from its first call to its return with nothing in between,
\* from store st: the calls it makes, its result and the store it leaves.
GetSessionRun(st, nid, app, user, sid, config, fail1, fail2) ==
  LET c1 == get_session_list_call(app, user, sid, config)
      o1 == ProxiedCall(st, nid, c1, fail1)
  IN IF o1.result.kind # "list"
     THEN [calls |-> <<c1>>, result |-> o1.result, store |-> o1.store,
           nextId |-> o1.nextId]
     ELSE LET c2 == get_session_next_call(app, user, sid, config, o1.result)
              o2 == get_session_result(
                      ProxiedCall(o1.store, o1.nextId, c2, fail2))
          IN [calls |-> <<c1, c2>>, result |-> o2.result,
              store |-> o2.store, nextId |-> o2.nextId]

\* ------------------------------------------------------------ deploy.py
\* Number of get_session_service calls a process makes in one behaviour.
MaxCalls == 3
Projects == {"proj-a", "proj-b"}
Regions == {"us-central1", "europe-west1"}

\* main() storing the command line's configuration in _CONFIG.
deploy_main(d, project_id, location) ==
  /\ deploy[d].CONFIG = EmptyDict
  /\ deploy' = [deploy EXCEPT ![d].CONFIG =
                  [PROJECT_ID |-> project_id, REGION |-> location,
                   STAGING_BUCKET |-> <<"gs://fraud-example-staging-",
                                        project_id>>]]
  /\ UNCHANGED <<sessionVars, agent, deleter>>

\* The store client get_session_service constructs from _CONFIG.
vertex_session_service(config) ==
  [kind |-> "VertexAiSessionService", project |-> config.PROJECT_ID,
   location |-> config.REGION]

\* get_session_service constructing at every call.
always_constructs(d) == TRUE

\* `_session_service is None`.
service_is_none(d) == deploy[d].session_service = NoService

\* One call of get_session_service in process d: a KeyError when _CONFIG
\* was not filled yet, else the instance, constructed when there is none.
get_session_service(d) ==
  LET g == deploy[d]
      made == [kind |-> "ImplicitSessionService", instance |-> g.built + 1,
               proxied |-> vertex_session_service(g.CONFIG)]
  IN /\ g.calls < MaxCalls
     /\ deploy' = [deploy EXCEPT ![d] =
          IF ~service_is_none(d)
          THEN [g EXCEPT !.calls = @ + 1, !.returned = g.session_service]
          ELSE IF "PROJECT_ID" \notin DOMAIN g.CONFIG
          THEN [g EXCEPT !.calls = @ + 1, !.returned = [kind |-> "KeyError"]]
          ELSE [g EXCEPT !.calls = @ + 1, !.clients = @ + 1,
                         !.built = @ + 1, !.session_service = made,
                         !.returned = made]]
     /\ UNCHANGED <<sessionVars, agent, deleter>>

\* Processes that run main() and call get_session_service.
DeployNext ==
  \E d \in DeployProcs :
    \/ \E project_id \in Projects, location \in Regions :
         deploy_main(d, project_id, location)
    \/ get_session_service(d)

DeploySpec == Init /\ [][DeployNext]_vars

\* ------------------------------------------------------- agent/agent.py
\* Number of publish_record calls in one behaviour.
MaxPublishes == 3
Topics == {"augmented-transactions", "compromised-cards"}
\* JSON payloads; the last one holds a lone surrogate, which UTF-8 cannot
\* encode.
Payloads == {"record-a", "record-b", "lone-surrogate"}
\* What publisher.publish and future.result() may do.
PublishOutcomes == {"ok", "publish_raises", "result_raises"}

\* json_payload.encode("utf-8"): the bytes, or the UnicodeEncodeError.
encode(json_payload) ==
  IF json_payload = "lone-surrogate" THEN [kind |-> "UnicodeEncodeError"]
  ELSE [kind |-> "bytes", utf8 |-> json_payload]

\* publish_record letting a failure of the publish reach its caller.
result_raises_on_failure(outcome) ==
  IF outcome = "ok" THEN "{}" ELSE "raised"

\* What publish_record returns after its try statement.
publish_record_result(outcome) == "{}"

\* One call of publish_record; client_ok: PublisherClient() can be
\* constructed, pub: what the publish does.
publish_record(topic, json_payload, client_ok, pub) ==
  LET cached == topic \in agent.publishers
      data == encode(json_payload)
      outcome == IF ~cached /\ ~client_ok THEN "client_raises"
                 ELSE IF data.kind # "bytes" THEN "encode_raises"
                 ELSE pub
      called == [agent EXCEPT !.calls = @ + 1, !.outcome = outcome,
                              !.topic = topic]
  IN /\ agent.calls < MaxPublishes
     /\ agent' =
          IF outcome = "client_raises"
          THEN [called EXCEPT !.ret = "raised"]
          ELSE LET tried == [called EXCEPT
                               !.publishers = @ \cup {topic},
                               !.ret = publish_record_result(outcome)]
               IN CASE outcome = "encode_raises"
                         -> [tried EXCEPT !.errors = @ + 1]
                    [] outcome = "publish_raises"
                         -> [tried EXCEPT !.attempts = @ + 1,
                                          !.errors = @ + 1]
                    [] outcome = "result_raises"
                         -> [tried EXCEPT
                               !.attempts = @ + 1,
                               !.handed = Append(@, <<topic, data>>),
                               !.errors = @ + 1]
                    [] outcome = "ok"
                         -> [tried EXCEPT
                               !.attempts = @ + 1,
                               !.handed = Append(@, <<topic, data>>)]
     /\ UNCHANGED <<sessionVars, deploy, deleter>>

\* The agent's tool calls.
PublishNext ==
  \E topic \in Topics, json_payload \in Payloads, client_ok \in BOOLEAN,
     pub \in PublishOutcomes :
    publish_record(topic, json_payload, client_ok, pub)

PublishSpec == Init /\ [][PublishNext]_vars

\* ------------------------------------------------------------ delete.py
\* Number of agents agent_engines.list() may return.
MaxAgents == 2
\* Resource names, as their characters: a/7, 7, a/8, a7, a/17.
AgentNames ==
  {<<"a", "/", "7">>, <<"7">>, <<"a", "/", "8">>, <<"a", "7">>,
   <<"a", "/", "1", "7">>}
\* Short ids given on the command line: 7, 8, 17, 9.
ShortIds == {<<"7">>, <<"8">>, <<"1", "7">>, <<"9">>}
AgentLists == UNION {[1 .. n -> AgentNames] : n \in 0 .. MaxAgents}

\* str.endswith.
EndsWith(s, suffix) ==
  /\ Len(s) >= Len(suffix)
  /\ SubSeq(s, Len(s) - Len(suffix) + 1, Len(s)) = suffix

\* The loop's test taking every name that ends with the short id.
is_target_suffix(name, short_agent_id) == EndsWith(name, short_agent_id)

\* The loop's test: app.name ends with "/" + short id, or equals it.
is_target(name, short_agent_id) ==
  EndsWith(name, <<"/">> \o short_agent_id) \/ name = short_agent_id

\* main() up to the try statement: the usage check and the arguments.
delete_main(argv_ok, short_agent_id) ==
  /\ deleter.pc = "start"
  /\ deleter' =
       IF argv_ok
       THEN [deleter EXCEPT !.pc = "list",
                            !.short_agent_id = short_agent_id]
       ELSE [deleter EXCEPT !.pc = "done", !.exit = "1",
                            !.raised = "usage"]
  /\ UNCHANGED <<sessionVars, deploy, agent>>

\* vertexai.init and agent_engines.list(): the listing, or an exception,
\* which the except clause turns into exit status 1.
list_agents(listing, fail) ==
  /\ deleter.pc = "list"
  /\ deleter' =
       IF fail
       THEN [deleter EXCEPT !.pc = "done", !.exit = "1", !.raised = "list"]
       ELSE [deleter EXCEPT !.pc = "loop", !.listed = listing, !.i = 1,
                            !.target_agent = 0]
  /\ UNCHANGED <<sessionVars, deploy, agent>>

\* One iteration of the for loop, or its end.
loop_step ==
  /\ deleter.pc = "loop"
  /\ deleter' =
       IF deleter.i > Len(deleter.listed)
       THEN [deleter EXCEPT !.pc = "after"]
       ELSE IF is_target(deleter.listed[deleter.i], deleter.short_agent_id)
       THEN [deleter EXCEPT !.target_agent = deleter.i, !.pc = "after"]
       ELSE [deleter EXCEPT !.i = @ + 1]
  /\ UNCHANGED <<sessionVars, deploy, agent>>

\* `if not target_agent`: return, or go on to the deletion.
after_loop ==
  /\ deleter.pc = "after"
  /\ deleter' =
       IF deleter.target_agent = 0
       THEN [deleter EXCEPT !.pc = "done", !.exit = "0"]
       ELSE [deleter EXCEPT !.pc = "delete"]
  /\ UNCHANGED <<sessionVars, deploy, agent>>

\* target_agent.delete(force=True): done, or an exception and exit status 1.
delete_agent(fail) ==
  /\ deleter.pc = "delete"
  /\ deleter' =
       IF fail
       THEN [deleter EXCEPT !.pc = "done", !.exit = "1",
                            !.raised = "delete"]
       ELSE [deleter EXCEPT !.pc = "done", !.exit = "0",
                            !.deleted = @ \cup {deleter.target_agent}]
  /\ UNCHANGED <<sessionVars, deploy, agent>>

\* One run of delete.py.
DeleteNext ==
  \/ \E argv_ok \in BOOLEAN, short_agent_id \in ShortIds :
       delete_main(argv_ok, short_agent_id)
  \/ \E listing \in AgentLists, fail \in BOOLEAN : list_agents(listing, fail)
  \/ loop_step
  \/ after_loop
  \/ \E fail \in BOOLEAN : delete_agent(fail)

DeleteSpec == Init /\ [][DeleteNext]_vars

\* One caller at a time: get_session among creations and deletions for two
\* users, with store failures inside get_session.
SeqCallers == {"c1"}

SeqNext ==
  \E p \in SeqCallers :
    \/ \E app \in Apps, user \in Users, fail \in BOOLEAN :
         get_session_list(p, app, user, NowhereId, None, fail)
    \/ \E fail \in BOOLEAN : get_session_return(p, fail)
    \/ \E app \in Apps, user \in Users, state \in StateArgs :
         create_session(p, app, user, state, NoId, FALSE)
    \/ \E app \in Apps, user \in Users, sid \in 1 .. MaxSessions :
         delete_session(p, app, user, sid, FALSE)

SeqSpec == Init /\ [][SeqNext]_vars

\* One caller at a time: get_session of one user among creations, deletions
\* and appended events.
EvUsers == {"bob"}

EvNext ==
  \E p \in SeqCallers :
    \/ \E app \in Apps, user \in EvUsers :
         get_session_list(p, app, user, NowhereId, None, FALSE)
    \/ get_session_return(p, FALSE)
    \/ \E app \in Apps, user \in EvUsers :
         create_session(p, app, user, None, NoId, FALSE)
    \/ \E app \in Apps, user \in EvUsers, sid \in 1 .. MaxSessions :
         delete_session(p, app, user, sid, FALSE)
    \/ \E session \in SessionArgs : append_event(p, session, FALSE)

EvSpec == Init /\ [][EvNext]_vars

\* One caller at a time: get_session with every session_id and config.
ArgNext ==
  \E p \in SeqCallers :
    \/ \E app \in Apps, user \in Users, sid \in SessionIdArgs,
          config \in ConfigArgs :
         get_session_list(p, app, user, sid, config, FALSE)
    \/ get_session_return(p, FALSE)
    \/ \E app \in Apps, user \in Users, state \in StateArgs :
         create_session(p, app, user, state, NoId, FALSE)
    \/ \E app \in Apps, user \in Users, sid \in 1 .. MaxSessions :
         delete_session(p, app, user, sid, FALSE)

ArgSpec == Init /\ [][ArgNext]_vars

\* One caller at a time: the four proxied operations of one user with every
\* argument; the store fails by itself (AlreadyExists, NotFound) and, for
\* list_sessions, on demand.
PassUsers == {"alice"}

PassNext ==
  \E p \in SeqCallers :
    \/ \E app \in Apps, user \in PassUsers, state \in StateArgs,
          sid \in CreateIdArgs :
         create_session(p, app, user, state, sid, FALSE)
    \/ \E app \in Apps, user \in PassUsers, fail \in BOOLEAN :
         list_sessions(p, app, user, fail)
    \/ \E app \in Apps, user \in PassUsers,
          sid \in (1 .. MaxSessions) \cup {CustomId} :
         delete_session(p, app, user, sid, FALSE)
    \/ \E session \in SessionArgs :
         /\ session.user_id \in PassUsers
         /\ nextEv <= SoloEvents
         /\ append_event(p, session, FALSE)

PassSpec == Init /\ [][PassNext]_vars

\* One caller at a time: the five operations of one user, each store call
\* of which may fail at the store level.
FailNext ==
  \E p \in SeqCallers :
    \/ \E app \in Apps, user \in PassUsers, fail \in BOOLEAN :
         get_session_list(p, app, user, NowhereId, None, fail)
    \/ \E fail \in BOOLEAN : get_session_return(p, fail)
    \/ \E app \in Apps, user \in PassUsers, fail \in BOOLEAN :
         create_session(p, app, user, None, NoId, fail)
    \/ \E app \in Apps, user \in PassUsers, fail \in BOOLEAN :
         list_sessions(p, app, user, fail)
    \/ \E app \in Apps, user \in PassUsers, sid \in 1 .. MaxSessions,
          fail \in BOOLEAN :
         delete_session(p, app, user, sid, fail)
    \/ \E session \in SessionArgs, fail \in BOOLEAN :
         session.user_id \in PassUsers /\ append_event(p, session, fail)

FailSpec == Init /\ [][FailNext]_vars

\* One caller at a time: sessions of two users created with and without
\* initial state, given events, and deleted by every identifier.
FrameNext ==
  \E p \in SeqCallers :
    \/ \E app \in Apps, user \in Users, state \in StateArgs :
         create_session(p, app, user, state, NoId, FALSE)
    \/ \E app \in Apps, user \in Users, sid \in 1 .. MaxSessions :
         delete_session(p, app, user, sid, FALSE)
    \/ \E session \in SessionArgs : append_event(p, session, FALSE)

FrameSpec == Init /\ [][FrameNext]_vars

\* No get_session of another caller is under way for (app, user).
NoOverlap(p, app, user) ==
  \A q \in Callers \ {p} :
    pc[q] = "await" => KeyOf(frame[q].call) # <<app, user>>

\* Concurrent callers that create sessions through get_session only, never
\* two at a time for one (app, user), among deletions and appended events.
SoloNext ==
  \E p \in Callers :
    \/ \E app \in Apps, user \in Users :
         /\ NoOverlap(p, app, user)
         /\ get_session_list(p, app, user, NowhereId, None, FALSE)
    \/ get_session_return(p, FALSE)
    \/ \E app \in Apps, user \in Users, sid \in 1 .. MaxSessions :
         delete_session(p, app, user, sid, FALSE)
    \/ \E i \in 1 .. Len(store) :
         nextEv <= SoloEvents /\ append_event(p, store[i], FALSE)

SoloSpec == Init /\ [][SoloNext]_vars

\* Concurrent callers of get_session and delete_session.
Next ==
  \E p \in Callers :
    \/ \E app \in Apps, user \in Users :
         get_session_list(p, app, user, NowhereId, None, FALSE)
    \/ \E fail \in BOOLEAN : get_session_return(p, fail)
    \/ \E app \in Apps, user \in Users, sid \in 1 .. MaxSessions :
         delete_session(p, app, user, sid, FALSE)

Spec == Init /\ [][Next]_vars

\* ----------------------------------------------------------- properties
Range(s) == {s[i] : i \in 1 .. Len(s)}
Ids(ss) == {ss[i].id : i \in 1 .. Len(ss)}
Pairs == Apps \X Users
Sessions(pair) == SessionsOf(store, pair[1], pair[2])
SessionsAfter(pair) == SessionsOf(store', pair[1], pair[2])

\* This step is the return of p's get_session, and no other caller's store
\* call took effect since p's list_sessions.
GetReturns(p) == pc[p] = "await" /\ pc'[p] = "idle"
Uninterleaved(p) == lastCaller = p
\* The completed get_session r created a session.
Created(r) ==
  /\ r.op = "get_session"
  /\ Len(r.calls) = 2
  /\ r.calls[2].op = "create_session"
  /\ r.result.kind = "session"
\* The completed get_session r fetched an existing session.
Fetched(r) ==
  /\ r.op = "get_session"
  /\ Len(r.calls) = 2
  /\ r.calls[2].op = "get_session"
  /\ r.result.kind = "session"

\* C1: a get_session with no other operation between its store calls ends
\* with a Session of the pair it was asked for, held by the store, or with a
\* store-level failure; never with a not-found outcome.
C1_NeverNotFound ==
  (last.op = "get_session" /\ last.clean) =>
    \/ /\ last.result.kind = "session"
       /\ last.result.session \in Range(Sessions(KeyOf(last.call)))
    \/ /\ last.result.kind = "error"
       /\ last.result.err \in {"StoreUnavailable", "InvalidArgument"}

\* A get_session returned a Session to a user holding several sessions.
C1_Witness ==
  /\ last.op = "get_session"
  /\ last.clean
  /\ last.result.kind = "session"
  /\ Len(Sessions(KeyOf(last.call))) >= 2

\* C2: in every interleaving a get_session ends with a Session or a
\* store-level failure, never with a not-found outcome.
C2_NeverNotFoundInterleaved ==
  last.op = "get_session" => last.result.kind \in {"session", "error"}

\* C3: a get_session for a pair without session, with no failure and nothing
\* interleaved, takes the pair from 0 sessions to exactly 1, leaves every
\* other pair's sessions as they were, and returns the new session, whose
\* state and event list are empty; its list_sessions step changes nothing.
C3_CreatesExactlyOne ==
  [][\A p \in Callers :
       /\ (pc[p] = "idle" /\ pc'[p] = "await") => store' = store
       /\ (/\ GetReturns(p)
           /\ Uninterleaved(p)
           /\ Sessions(KeyOf(frame[p].call)) = <<>>
           /\ last'.result.kind # "error")
          => LET pair == KeyOf(frame[p].call)
             IN /\ Len(SessionsAfter(pair)) = 1
                /\ \A q \in Pairs \ {pair} : SessionsAfter(q) = Sessions(q)
                /\ last'.result.kind = "session"
                /\ last'.result.session = SessionsAfter(pair)[1]
                /\ last'.result.session.state = EmptyState
                /\ last'.result.session.events = <<>>
                /\ last'.result.session.id \notin StoreIds(store)]_vars

\* A get_session created the only session of its pair while the other pair
\* holds a session too.
C3_Witness ==
  /\ Created(last)
  /\ last.clean
  /\ Len(Sessions(KeyOf(last.call))) = 1
  /\ Len(store) >= 2

\* C5: two get_session calls for one pair, the second started after the
\* first returned, nothing in between and no failure: both return the same
\* session identifier and the second creates no session.
C5_Idempotent ==
  [][\A p \in Callers :
       (/\ GetReturns(p)
        /\ Uninterleaved(p)
        /\ frame[p].prev.op = "get_session"
        /\ last.result.kind # "error"
        /\ last'.result.kind # "error")
       => /\ last.result.kind = "session"
          /\ last'.result.kind = "session"
          /\ last'.result.session.id = last.result.session.id
          /\ store' = store
          /\ nextId' = nextId]_vars

\* A get_session that followed a get_session of the same pair returned.
C5_Witness ==
  /\ Fetched(last)
  /\ last.clean
  /\ last.prev.op = "get_session"

\* C4: a get_session for a pair whose listing is not empty, with no failure
\* and nothing interleaved, lists, fetches the first listed identifier, and
\* returns that session's full stored record; the store is left as it was.
C4_ReturnsFirstInFull ==
  [][\A p \in Callers :
       (/\ GetReturns(p)
        /\ Uninterleaved(p)
        /\ Sessions(KeyOf(frame[p].call)) # <<>>
        /\ last'.result.kind # "error")
       => LET pair == KeyOf(frame[p].call)
              first == Sessions(pair)[1]
          IN /\ first.id = SummariesOf(store, pair[1], pair[2])[1].id
             /\ last'.calls = <<ListCall(pair[1], pair[2]),
                                GetCall(pair[1], pair[2], first.id,
                                        frame[p].call.config)>>
             /\ last'.result = SessionResult(first)
             /\ store' = store
             /\ nextId' = nextId]_vars

\* A get_session returned the first of several sessions, with its events.
C4_Witness ==
  /\ Fetched(last)
  /\ last.clean
  /\ Len(Sessions(KeyOf(last.call))) >= 2
  /\ last.result.session = Sessions(KeyOf(last.call))[1]
  /\ last.result.session.events # <<>>

\* This step is a completed single-call operation op of p.
PassStep(p, op) ==
  pc[p] = "idle" /\ pc' = pc /\ last'.caller = p /\ last'.op = op

\* C6 as stated: delete_session of a session of the pair leaves the pair
\* without session, and the get_session that follows creates a session with
\* another identifier.
C6_DeleteLeavesNoSession ==
  [][\A p \in Callers :
       /\ (/\ PassStep(p, "delete_session")
           /\ last'.call.session_id \in Ids(Sessions(KeyOf(last'.call))))
          => SessionsAfter(KeyOf(last'.call)) = <<>>
       /\ (/\ GetReturns(p)
           /\ Uninterleaved(p)
           /\ frame[p].prev = [op |-> "delete_session", delta |-> -1]
           /\ last'.result.kind # "error")
          => /\ Created(last')
             /\ last'.result.session.id # last.call.session_id]_vars

\* C6 amended: delete_session(s) removes s alone; the pair is left without
\* session exactly when s was its only one, and then the get_session that
\* follows creates a session with a new identifier; otherwise that
\* get_session creates nothing and returns the first session left. Either
\* way the identifier returned is not s.
C6_DeleteThenGet ==
  [][\A p \in Callers :
       /\ (/\ PassStep(p, "delete_session")
           /\ last'.call.session_id \in Ids(Sessions(KeyOf(last'.call))))
          => LET pair == KeyOf(last'.call)
                 s == last'.call.session_id
             IN /\ SessionsAfter(pair)
                     = SelectSeq(Sessions(pair), LAMBDA x : x.id # s)
                /\ (SessionsAfter(pair) = <<>>) <=> (Ids(Sessions(pair)) = {s})
                /\ last'.delta = -1
       /\ (/\ GetReturns(p)
           /\ Uninterleaved(p)
           /\ frame[p].prev = [op |-> "delete_session", delta |-> -1]
           /\ last'.result.kind # "error")
          => LET pair == KeyOf(frame[p].call)
                 s == last.call.session_id
             IN /\ last'.result.kind = "session"
                /\ last'.result.session.id # s
                /\ IF Sessions(pair) = <<>>
                   THEN /\ Created(last')
                        /\ last'.result.session.id \notin StoreIds(store)
                        /\ last'.result.session.id >= nextId
                   ELSE /\ Fetched(last')
                        /\ last'.result.session = Sessions(pair)[1]
                        /\ store' = store]_vars

\* A get_session created a session right after a delete_session removed the
\* pair's session.
C6_Witness ==
  /\ Created(last)
  /\ last.clean
  /\ last.prev = [op |-> "delete_session", delta |-> -1]
  /\ Len(Sessions(KeyOf(last.call))) = 1

Increasing(s) == \A i, j \in 1 .. Len(s) : i < j => s[i] < s[j]

\* C7 as stated: an event appended to a session that get_session returned is
\* in the history of the session the pair's next get_session returns.
C7_AppendedEventVisible ==
  [][\A p \in Callers :
       (GetReturns(p) /\ last'.result.kind # "error")
       => \A a \in appendLog :
            (a.fromGet /\ a.key = KeyOf(frame[p].call))
            => /\ last'.result.kind = "session"
               /\ a.event \in Range(last'.result.session.events)]_vars

\* C7 amended: an event appended to a session S is in the history of the
\* session the pair's next get_session returns when S is still stored and
\* the first of the pair in listing order: that get_session returns S, and
\* the history holds the events in the order they were appended.
C7_AppendedEventVisibleInFirst ==
  [][\A p \in Callers :
       (/\ GetReturns(p)
        /\ Uninterleaved(p)
        /\ last'.result.kind # "error")
       => \A a \in appendLog :
            (/\ a.key = KeyOf(frame[p].call)
             /\ Sessions(a.key) # <<>>
             /\ Sessions(a.key)[1].id = a.id)
            => /\ last'.result.kind = "session"
               /\ last'.result.session.id = a.id
               /\ a.event \in Range(last'.result.session.events)
               /\ Increasing(last'.result.session.events)]_vars

\* A get_session returned a session with two events right after an
\* append_event to a session of the pair.
C7_Witness ==
  /\ Fetched(last)
  /\ last.clean
  /\ last.prev = [op |-> "append_event", delta |-> 0]
  /\ Len(last.result.session.events) >= 2

\* C8: each of create_session, list_sessions, delete_session and
\* append_event makes exactly one call of the same-named store operation
\* with the caller's arguments, returns its result or its error, and leaves
\* the store as the direct call would; a second create_session for the same
\* pair yields a second session.
C8_PassThrough ==
  [][\A p \in Callers :
       \A op \in {"create_session", "list_sessions", "delete_session",
                  "append_event"} :
         PassStep(p, op)
         => LET c == last'.call
                direct == ProxiedCall(store, nextId, c,
                            last'.result = StoreError("StoreUnavailable"))
            IN /\ c.op = op
               /\ last'.calls = <<c>>
               /\ last'.result = direct.result
               /\ store' = direct.store
               /\ nextId' = direct.nextId
               /\ (/\ op = "create_session"
                   /\ last.op = "create_session"
                   /\ last.caller = p
                   /\ KeyOf(last.call) = KeyOf(c)
                   /\ last.result.kind = "session"
                   /\ last'.result.kind = "session")
                  => /\ last'.result.session.id # last.result.session.id
                     /\ {last.result.session, last'.result.session}
                          \subseteq Range(SessionsAfter(KeyOf(c)))]_vars

\* A create_session with an initial state right after a create_session for
\* the same pair: the pair holds both sessions.
C8_Witness ==
  /\ last.op = "create_session"
  /\ last.prev = [op |-> "create_session", delta |-> 1]
  /\ last.result.kind = "session"
  /\ last.result.session.state # EmptyState
  /\ Len(Sessions(KeyOf(last.call))) >= 2

\* C9: when a get_session that listed no session reaches its create_session
\* after another get_session created a session for the pair, it does not
\* fail: it creates one more session, under an identifier no stored session
\* carries, and returns it; the pair then holds two sessions or more.
C9_RaceCreatesSecondSession ==
  [][\A p \in Callers :
       (/\ GetReturns(p)
        /\ frame[p].pending.op = "create_session"
        /\ Sessions(KeyOf(frame[p].call)) # <<>>
        /\ last'.result # StoreError("StoreUnavailable"))
       => LET pair == KeyOf(frame[p].call)
          IN /\ ~Uninterleaved(p)
             /\ Created(last')
             /\ ~last'.clean
             /\ last'.result.session.id \notin StoreIds(store)
             /\ Len(SessionsAfter(pair)) = Len(Sessions(pair)) + 1
             /\ last'.result.session \in Range(SessionsAfter(pair))]_vars

\* Two overlapping get_session calls both created a session: the pair holds
\* two sessions, the second one returned by the call that ended last.
C9_Witness ==
  /\ Created(last)
  /\ ~last.clean
  /\ Len(Sessions(KeyOf(last.call))) = 2
  /\ last.result.session = Sessions(KeyOf(last.call))[2]

\* C10: a get_session, run with nothing interleaved, makes the calls,
\* returns the result and leaves the store that the same get_session with
\* any other session_id makes, returns and leaves.
C10_SessionIdIgnored ==
  [][\A p \in Callers :
       (GetReturns(p) /\ Uninterleaved(p))
       => LET c == frame[p].call
          IN \A sid \in SessionIdArgs :
               [calls |-> last'.calls, result |-> last'.result,
                store |-> store', nextId |-> nextId']
                 = GetSessionRun(store, nextId, c.app_name, c.user_id, sid,
                                 c.config, FALSE,
                                 last'.result
                                   = StoreError("StoreUnavailable"))]_vars

\* A get_session given the identifier of a session that is not the first of
\* the pair returned the first one.
C10_Witness ==
  /\ Fetched(last)
  /\ last.clean
  /\ last.call.session_id \in Ids(Sessions(KeyOf(last.call)))
  /\ last.call.session_id # Sessions(KeyOf(last.call))[1].id
  /\ last.result.session = Sessions(KeyOf(last.call))[1]

\* The operation of p ends in this step with the store's failure, having
\* made the store calls `calls` and no other, and the store is as it was.
FailsWith(p, calls) ==
  /\ pc'[p] = "idle"
  /\ last'.caller = p
  /\ last'.result = StoreError("StoreUnavailable")
  /\ last'.calls = calls
  /\ store' = store
  /\ nextId' = nextId

\* C11: an operation whose store call fails ends with that failure, having
\* made no store call after the failed one and leaving the store as it was;
\* a get_session whose list_sessions fails has made that one call only, and
\* no operation that ends with an error has changed the store.
C11_FailurePassesThrough ==
  [][/\ last'.result.kind = "error" => store' = store /\ nextId' = nextId
     /\ \A p \in SeqCallers :
          /\ get_session_return(p, TRUE)
             => /\ FailsWith(p, Append(frame[p].calls, frame[p].pending))
                /\ Len(last'.calls) = 2
          /\ \A app \in Apps, user \in PassUsers :
               /\ get_session_list(p, app, user, NowhereId, None, TRUE)
                  => FailsWith(p, <<ListCall(app, user)>>)
               /\ create_session(p, app, user, None, NoId, TRUE)
                  => FailsWith(p, <<CreateCall(app, user, None, NoId)>>)
               /\ list_sessions(p, app, user, TRUE)
                  => FailsWith(p, <<ListCall(app, user)>>)
               /\ \A sid \in 1 .. MaxSessions :
                    delete_session(p, app, user, sid, TRUE)
                    => FailsWith(p, <<DeleteCall(app, user, sid)>>)
          /\ \A session \in IF last'.op = "append_event"
                            THEN {last'.call.session} ELSE {} :
               append_event(p, session, TRUE)
               => FailsWith(p, <<AppendCall(session, nextEv)>>)]_vars

\* A get_session of a user without session ended with the failure of its
\* list_sessions, and the user still has no session.
C11_Witness ==
  /\ last.op = "get_session"
  /\ last.result = StoreError("StoreUnavailable")
  /\ last.calls = <<ListCall(last.call.app_name, last.call.user_id)>>
  /\ Sessions(KeyOf(last.call)) = <<>>
  /\ nextId > 1

\* C12: delete_session(app, user, s) removes at most the session s of
\* (app, user): every other stored session stays as it is (identity, state,
\* events) and in its place, nothing is added, and when (app, user) holds no
\* session s the store does not change.
C12_DeleteFrame ==
  [][\A p \in Callers :
       PassStep(p, "delete_session")
       => LET c == last'.call
              kept == Range(store')
          IN /\ \A i \in 1 .. Len(store) :
                  (store[i].id # c.session_id \/ KeyOf(c)
                     # <<store[i].app_name, store[i].user_id>>)
                  => store[i] \in kept
             /\ kept \subseteq Range(store)
             /\ store' = SelectSeq(store, LAMBDA s : s \in kept)
             /\ Len(store') >= Len(store) - 1
             /\ c.session_id \notin Ids(Sessions(KeyOf(c)))
                => store' = store]_vars

\* A delete_session removed one of two sessions of a user; the other one,
\* which has events, is still stored.
C12_Witness ==
  /\ last.op = "delete_session"
  /\ last.delta = -1
  /\ \E s \in Range(Sessions(KeyOf(last.call))) :
       s.events # <<>> /\ s.state # EmptyState

\* C13: in every interleaving, a get_session for (app, user) lists that
\* pair, selects or creates a session of that pair only, returns a session
\* of that pair, leaves the sessions of every other pair as they are, and
\* its calls and result are those it would have with the sessions of its
\* own pair alone in the store; an operation's store calls are made in the
\* order the caller issued them, before the operation returns.
C13_UsersIndependent ==
  [][\A p \in Callers :
       /\ (pc[p] = "idle" /\ pc'[p] = "await")
          => LET c == frame'[p].call
                 own == Sessions(KeyOf(c))
             IN /\ store' = store
                /\ frame'[p].calls = <<ListCall(c.app_name, c.user_id)>>
                /\ frame'[p].pending =
                     IF own = <<>>
                     THEN CreateCall(c.app_name, c.user_id, None, NoId)
                     ELSE GetCall(c.app_name, c.user_id, own[1].id, c.config)
       /\ GetReturns(p)
          => LET c == frame[p].call
                 k == frame[p].pending
                 alone == ProxiedCall(Sessions(KeyOf(c)), nextId, k,
                            last'.result = StoreError("StoreUnavailable"))
             IN /\ last'.calls = <<ListCall(c.app_name, c.user_id), k>>
                /\ KeyOf(k) = KeyOf(c)
                /\ last'.result = alone.result
                /\ SessionsAfter(KeyOf(c)) = alone.store
                /\ last'.result.kind = "session"
                   => /\ KeyOf(c) = <<last'.result.session.app_name,
                                      last'.result.session.user_id>>
                      /\ last'.result.session
                           \in Range(SessionsAfter(KeyOf(c)))
                /\ \A i \in 1 .. Len(store) : store[i] \in Range(store')
                /\ \A q \in Pairs \ {KeyOf(c)} :
                     SessionsAfter(q) = Sessions(q)
       /\ PassStep(p, "delete_session") => last'.calls = <<last'.call>>]_vars

\* A get_session that overlapped another caller's call created a session
\* for its user while another user holds a session.
C13_Witness ==
  /\ Created(last)
  /\ ~last.clean
  /\ Len(Sessions(KeyOf(last.call))) = 1
  /\ \E q \in Pairs \ {KeyOf(last.call)} : Sessions(q) # <<>>

\* C14: when sessions are created through get_session only and no two
\* get_session calls for one (app, user) overlap, every (app, user) holds at
\* most one session, whatever is deleted or appended in between.
C14_AtMostOneSession ==
  \A pair \in Pairs : Len(Sessions(pair)) <= 1

\* A second session was created by a get_session that overlapped another
\* caller's calls: it belongs to another user or replaces a deleted one, and
\* a stored session has an event.
C14_Witness ==
  /\ Created(last)
  /\ ~last.clean
  /\ last.result.session.id = MaxSessions
  /\ \E i \in 1 .. Len(store) : store[i].events # <<>>

\* C15: while no delete_session is made for a pair that holds a session, its
\* first session in listing order stays the same; a get_session that starts
\* then selects that session, and unless the store fails or the session was
\* deleted before the fetch, it returns that session and creates nothing:
\* also when the pair holds two sessions.
C15_SteadyState ==
  [][/\ \A pair \in Pairs :
          (/\ Sessions(pair) # <<>>
           /\ ~ \E q \in Callers :
                  PassStep(q, "delete_session") /\ KeyOf(last'.call) = pair)
          => /\ SessionsAfter(pair) # <<>>
             /\ SessionsAfter(pair)[1] = Sessions(pair)[1]
     /\ \A p \in Callers :
          /\ (/\ pc[p] = "idle"
              /\ pc'[p] = "await"
              /\ Sessions(KeyOf(frame'[p].call)) # <<>>)
             => /\ frame'[p].pending.op = "get_session"
                /\ frame'[p].pending.session_id
                     = Sessions(KeyOf(frame'[p].call))[1].id
          /\ (/\ GetReturns(p)
              /\ frame[p].pending.op = "get_session"
              /\ frame[p].pending.session_id
                   \in Ids(Sessions(KeyOf(frame[p].call)))
              /\ last'.result # StoreError("StoreUnavailable"))
             => /\ last'.result
                     = SessionResult(Sessions(KeyOf(frame[p].call))[1])
                /\ store' = store
                /\ nextId' = nextId]_vars

\* After two overlapping get_session calls left a user with two sessions, a
\* get_session returned the first of them.
C15_Witness ==
  /\ Fetched(last)
  /\ Len(Sessions(KeyOf(last.call))) = 2
  /\ last.result.session = Sessions(KeyOf(last.call))[1]

\* C16: once _CONFIG is filled, a call of get_session_service that finds no
\* instance constructs one ImplicitSessionService around one store client
\* made from _CONFIG, every other call constructs nothing and leaves the
\* instance in place; each call returns the process's instance, and a
\* process never constructs a second one.
C16_LazySingleton ==
  [][\A d \in DeployProcs :
       (/\ deploy'[d].calls = deploy[d].calls + 1
        /\ "PROJECT_ID" \in DOMAIN deploy[d].CONFIG)
       => LET a == deploy[d]
              b == deploy'[d]
          IN /\ b.session_service # NoService
             /\ b.returned = b.session_service
             /\ b.session_service.proxied
                  = [kind |-> "VertexAiSessionService",
                     project |-> a.CONFIG.PROJECT_ID,
                     location |-> a.CONFIG.REGION]
             /\ IF a.session_service = NoService
                THEN b.built = a.built + 1 /\ b.clients = a.clients + 1
                ELSE /\ b.session_service = a.session_service
                     /\ b.built = a.built
                     /\ b.clients = a.clients
             /\ b.built = 1
             /\ b.clients = 1]_vars

\* A process called get_session_service several times and holds the one
\* instance it constructed at the first call after _CONFIG was filled.
C16_Witness ==
  \E d \in DeployProcs :
    /\ deploy[d].calls >= 2
    /\ deploy[d].built = 1
    /\ deploy[d].returned = deploy[d].session_service
    /\ deploy[d].session_service # NoService

\* C17: a publish_record call whose publish succeeds, whose publish call
\* raises or whose awaited result raises returns the empty dictionary after
\* exactly one publish attempt; a failure is logged once and not raised, and
\* no call makes a second attempt.
C17_PublishFailureSwallowed ==
  [][agent'.calls = agent.calls + 1
     => /\ agent'.attempts - agent.attempts \in {0, 1}
        /\ agent'.outcome \in PublishOutcomes
           => /\ agent'.ret = "{}"
              /\ agent'.attempts = agent.attempts + 1
        /\ agent'.outcome \in {"publish_raises", "result_raises"}
           => agent'.errors = agent.errors + 1
        /\ agent'.outcome = "publish_raises" => agent'.handed = agent.handed
        /\ agent'.outcome = "ok"
           => /\ agent'.errors = agent.errors
              /\ Len(agent'.handed) = Len(agent.handed) + 1
        /\ agent'.ret = "raised"
           => /\ agent'.outcome = "client_raises"
              /\ agent'.attempts = agent.attempts]_vars

\* A publish_record call whose awaited result failed returned the empty
\* dictionary, as the successful call before it did.
C17_Witness ==
  /\ agent.outcome = "result_raises"
  /\ agent.ret = "{}"
  /\ agent.errors = 1
  /\ agent.attempts = 2
  /\ Len(agent.handed) = 2

\* The listed agent at position i has a name equal to the short id or
\* ending with "/" and the short id.
NamedBy(i) ==
  \/ deleter.listed[i] = deleter.short_agent_id
  \/ EndsWith(deleter.listed[i], <<"/">> \o deleter.short_agent_id)

\* C18: a run of delete.py deletes at most one agent, the first listed one
\* whose name equals the short id or ends with "/" and the short id, at
\* which its scan stopped; when no
\* listed agent has such a name it deletes nothing, and a run in which no
\* call raised ends with exit status 0.
C18_DeletesFirstMatchOnly ==
  LET named == {i \in 1 .. Len(deleter.listed) : NamedBy(i)}
  IN /\ Cardinality(deleter.deleted) <= 1
     /\ deleter.deleted \subseteq named
     /\ \A i \in deleter.deleted : \A j \in 1 .. (i - 1) : j \notin named
     /\ named = {} => deleter.deleted = {}
     /\ deleter.target_agent # 0
        => /\ deleter.i = deleter.target_agent
           /\ deleter.deleted \subseteq {deleter.target_agent}
     /\ (deleter.pc = "done" /\ deleter.raised = "none")
        => /\ deleter.exit = "0"
           /\ named # {} => deleter.deleted # {}
     /\ deleter.exit = "1" <=> deleter.raised # "none"

\* A run deleted the second listed agent, a/7, for the short id 7, after
\* passing over a7.
C18_Witness ==
  /\ deleter.pc = "done"
  /\ deleter.short_agent_id = <<"7">>
  /\ deleter.listed = <<(<<"a", "7">>), (<<"a", "/", "7">>)>>
  /\ deleter.deleted = {2}
  /\ deleter.exit = "0"

====
